---- MODULE Spec2Model ----
(***************************************************************************)
(* A model of process::http::authentication::JwkSet                        *)
(* (3rdparty/libprocess/src/jwk_set.cpp): JwkSet::parse turns a JSON Web   *)
(* Key Set document into two registries, kid -> Signer and kid -> Verifier,*)
(* and findSigner / findVerifier look a kid up in them.                    *)
(***************************************************************************)
EXTENDS Integers, Sequences, FiniteSets, TLC

\* ------------------------------------------------------------------ bounds

\* The longest 'keys' array of an input document.
MaxKeys == 2

\* ------------------------------------------------------------- JSON values

\* A JSON value is [type, value]; value is the character sequence of a
\* string and empty otherwise. Absent stands for "no such member".
Absent == [type |-> "absent", value |-> <<>>]
JNumber == [type |-> "number", value |-> <<>>]
JString(s) == [type |-> "string", value |-> s]

\* The member names parse ever asks a key object for.
FieldNames == {"kty", "kid", "use", "n", "e", "d", "p", "q", "dp", "dq", "qi"}

\* ---------------------------------------------------------- Try<T> values

Some(v) == [isError |-> FALSE, value |-> v, error |-> <<>>]
Error(msg) == [isError |-> TRUE, value |-> <<>>, error |-> msg]

\* ------------------------------------------------------------- base64url

\* The base64url alphabet (RFC 4648, section 5), by 6-bit value 0..63.
Base64UrlChars ==
  << "A","B","C","D","E","F","G","H","I","J","K","L","M","N","O","P",
     "Q","R","S","T","U","V","W","X","Y","Z","a","b","c","d","e","f",
     "g","h","i","j","k","l","m","n","o","p","q","r","s","t","u","v",
     "w","x","y","z","0","1","2","3","4","5","6","7","8","9","-","_" >>

Base64UrlAlphabet == {Base64UrlChars[i] : i \in 1..Len(Base64UrlChars)}

IsBase64(c) == c \in Base64UrlAlphabet

SextetOf(c) == (CHOOSE i \in 1..Len(Base64UrlChars) : Base64UrlChars[i] = c) - 1

RECURSIVE SextetsValue(_)
SextetsValue(s) ==
  IF s = <<>> THEN 0
  ELSE SextetsValue(SubSeq(s, 1, Len(s) - 1)) * 64 + SextetOf(s[Len(s)])

RECURSIVE Pow2(_)
Pow2(k) == IF k = 0 THEN 1 ELSE 2 * Pow2(k - 1)

\* base64::decode_url_safe followed by BN_bin2bn: a character outside the
\* alphabet is an error; otherwise the sextets are packed into whole bytes
\* (the bits of a trailing partial byte are dropped) and the bytes are read
\* as a big-endian unsigned integer.
DecodeUrlSafeToBigNum(s) ==
  IF \E i \in 1..Len(s) : ~IsBase64(s[i])
  THEN Error(<<"Invalid character">>)
  ELSE Some(SextetsValue(s) \div Pow2((6 * Len(s)) % 8))

\* ------------------------------------------------------------ extraction

\* nullptr of a BIGNUM* / an unset component of an RSA key.
Nullptr == -1

FindStringValueInJson(json, key) ==
  LET value_json == json[key] IN
  IF value_json.type = "absent"
  THEN Error(<<"Failed to locate '", key, "' in JWK">>)
  ELSE IF value_json.type # "string"
  THEN Error(<<"Token '", key, "' is not a string">>)
  ELSE Some(value_json.value)

\* extractBigNum, from the string found: decode it and convert the bytes.
BigNumOfString(paramBase64) ==
  IF paramBase64.isError THEN Error(paramBase64.error)
  ELSE IF DecodeUrlSafeToBigNum(paramBase64.value).isError
  THEN Error(<<"Failed to base64url-decode: ">>
             \o DecodeUrlSafeToBigNum(paramBase64.value).error)
  ELSE Some(DecodeUrlSafeToBigNum(paramBase64.value).value)

ExtractBigNum(jwk, paramKey) ==
  BigNumOfString(FindStringValueInJson(jwk, paramKey))

SeqRange(s) == {s[i] : i \in 1..Len(s)}

\* The position in requiredKeys of the first key whose extraction (in
\* tries, by key name) failed; 0 if there is none.
FirstFailing(tries, requiredKeys) ==
  IF \E i \in 1..Len(requiredKeys) : tries[requiredKeys[i]].isError
  THEN CHOOSE i \in 1..Len(requiredKeys) :
         /\ tries[requiredKeys[i]].isError
         /\ \A j \in 1..(i - 1) : ~tries[requiredKeys[j]].isError
  ELSE 0

\* extractBigNums, from the extraction of each key: the error of the first
\* required key that failed, or else the map from key name to BIGNUM, in
\* which an optional key that failed is a null pointer.
CollectBigNums(tries, requiredKeys, bad) ==
  IF bad # 0 THEN Error(tries[requiredKeys[bad]].error)
  ELSE Some([key \in DOMAIN tries |->
               IF tries[key].isError THEN Nullptr ELSE tries[key].value])

ExtractEach(jwk, keys) == [key \in SeqRange(keys) |-> ExtractBigNum(jwk, key)]

ExtractBigNums(jwk, requiredKeys, optionalKeys) ==
  CollectBigNums(ExtractEach(jwk, requiredKeys \o optionalKeys), requiredKeys,
                 FirstFailing(ExtractEach(jwk, requiredKeys), requiredKeys))

\* ------------------------------------------------------------- RSA keys

\* RSA_new(): every component unset.
RSANew == [n |-> Nullptr, e |-> Nullptr, d |-> Nullptr, p |-> Nullptr,
           q |-> Nullptr, dmp1 |-> Nullptr, dmq1 |-> Nullptr, iqmp |-> Nullptr]

\* RSA_set0_key, RSA_set0_factors and RSA_set0_crt_params on a key.
RSASet0Key(rsa, n, e, d) == [rsa EXCEPT !.n = n, !.e = e, !.d = d]
RSASet0Factors(rsa, p, q) == [rsa EXCEPT !.p = p, !.q = q]
RSASet0CrtParams(rsa, dp, dq, qi) ==
  [rsa EXCEPT !.dmp1 = dp, !.dmq1 = dq, !.iqmp = qi]

\* jwkToRSAPublicKey, from the parameters extracted.
PublicKeyOf(params) ==
  IF params.isError
  THEN Error(<<"Failed to create RSA public key: ">> \o params.error)
  ELSE Some(RSASet0Key(RSANew, params.value["n"], params.value["e"], Nullptr))

JwkToRSAPublicKey(jwk) == PublicKeyOf(ExtractBigNums(jwk, <<"e", "n">>, <<>>))

\* SetFactors installing the factors when either of them is there.
SetFactorsEither(rsa, p, q) ==
  IF p # Nullptr \/ q # Nullptr THEN RSASet0Factors(rsa, p, q) ELSE rsa

\* jwkToRSAPrivateKey after RSA_set0_key: the factors are set when p and q
\* are both there, then the CRT parameters when dp, dq and qi all are.
SetFactors(rsa, p, q) ==
  IF p # Nullptr /\ q # Nullptr THEN RSASet0Factors(rsa, p, q) ELSE rsa

SetCrtParams(rsa, dp, dq, qi) ==
  IF dp # Nullptr /\ dq # Nullptr /\ qi # Nullptr
  THEN RSASet0CrtParams(rsa, dp, dq, qi)
  ELSE rsa

\* PrivateKeyOf leaving d out of RSA_set0_key, as the public-key build does.
PrivateKeyOfWithoutD(params) ==
  IF params.isError
  THEN Error(<<"Failed to create RSA private key: ">> \o params.error)
  ELSE Some(SetCrtParams(
              SetFactors(
                RSASet0Key(RSANew, params.value["n"], params.value["e"],
                           Nullptr),
                params.value["p"], params.value["q"]),
              params.value["dp"], params.value["dq"], params.value["qi"]))

\* jwkToRSAPrivateKey, from the parameters extracted.
PrivateKeyOf(params) ==
  IF params.isError
  THEN Error(<<"Failed to create RSA private key: ">> \o params.error)
  ELSE Some(SetCrtParams(
              SetFactors(
                RSASet0Key(RSANew, params.value["n"], params.value["e"],
                           params.value["d"]),
                params.value["p"], params.value["q"]),
              params.value["dp"], params.value["dq"], params.value["qi"]))

JwkToRSAPrivateKey(jwk) ==
  PrivateKeyOf(ExtractBigNums(jwk, <<"e", "n", "d">>,
                              <<"p", "q", "dp", "dq", "qi">>))

\* Try<pair<shared_ptr<RSA>, KeyType>>: value is [first, second].
PairWith(key, keyType) ==
  IF key.isError THEN Error(key.error)
  ELSE Some([first |-> key.value, second |-> keyType])

\* JwkToRSAKey pairing the public key with KeyType::PRIVATE too.
JwkToRSAKeyAlwaysPrivate(jwk) ==
  IF ~FindStringValueInJson(jwk, "d").isError
  THEN PairWith(JwkToRSAPrivateKey(jwk), "PRIVATE")
  ELSE PairWith(JwkToRSAPublicKey(jwk), "PRIVATE")

\* JwkToRSAKey building the public key when the private build fails.
JwkToRSAKeyFallingBack(jwk) ==
  IF /\ ~FindStringValueInJson(jwk, "d").isError
     /\ ~JwkToRSAPrivateKey(jwk).isError
  THEN PairWith(JwkToRSAPrivateKey(jwk), "PRIVATE")
  ELSE PairWith(JwkToRSAPublicKey(jwk), "PUBLIC")

JwkToRSAKey(jwk) ==
  IF ~FindStringValueInJson(jwk, "d").isError
  THEN PairWith(JwkToRSAPrivateKey(jwk), "PRIVATE")
  ELSE PairWith(JwkToRSAPublicKey(jwk), "PUBLIC")

\* ------------------------------------------------------------ registries

\* std::map<string, unique_ptr<T>>: a function from kids to capabilities.
EmptyMap == <<>>

\* MapInsert as an assignment map[key] = value, which replaces.
MapInsertOverwriting(map, key, value) ==
  [k \in DOMAIN map \cup {key} |-> IF k = key THEN value ELSE map[k]]

\* std::map::insert: a key already in the map keeps its old value.
MapInsert(map, key, value) ==
  IF key \in DOMAIN map THEN map ELSE map @@ (key :> value)

\* new RSAVerifier(rsa) / new RSASigner(rsa), allocated while the id-th
\* element of 'keys' is processed; id stands for the object's identity.
RSAVerifier(rsa, id) == [class |-> "RSAVerifier", key |-> rsa, id |-> id]
RSASigner(rsa, id) == [class |-> "RSASigner", key |-> rsa, id |-> id]

\* What parseAndClassifyJwk leaves: the two registries and its result.
Classified(signers, verifiers, res) ==
  [signers |-> signers, verifiers |-> verifiers, res |-> res]

\* ClassifyRSA registering a verifier for a private key too.
ClassifyRSAVerifierAlways(kty, kid, rsaKey, id, signers, verifiers) ==
  IF rsaKey.isError THEN Classified(signers, verifiers, Error(rsaKey.error))
  ELSE Classified(
         IF rsaKey.value.second = "PRIVATE"
         THEN MapInsert(signers, kid, RSASigner(rsaKey.value.first, id))
         ELSE signers,
         MapInsert(verifiers, kid, RSAVerifier(rsaKey.value.first, id)),
         Error(<<"Unsupported key type: ">> \o kty))

\* ClassifyRSA keeping a kid out of one registry once it is in the other.
ClassifyRSAOneRegistryPerKid(kty, kid, rsaKey, id, signers, verifiers) ==
  IF rsaKey.isError THEN Classified(signers, verifiers, Error(rsaKey.error))
  ELSE Classified(
         IF rsaKey.value.second = "PRIVATE" /\ kid \notin DOMAIN verifiers
         THEN MapInsert(signers, kid, RSASigner(rsaKey.value.first, id))
         ELSE signers,
         IF rsaKey.value.second = "PUBLIC" /\ kid \notin DOMAIN signers
         THEN MapInsert(verifiers, kid, RSAVerifier(rsaKey.value.first, id))
         ELSE verifiers,
         Error(<<"Unsupported key type: ">> \o kty))

\* parseAndClassifyJwk once kty is known to be "RSA": the key is built and
\* inserted. No return follows the insertion, so control reaches the last
\* statement of the function, which returns the error for any other kty.
ClassifyRSA(kty, kid, rsaKey, id, signers, verifiers) ==
  IF rsaKey.isError THEN Classified(signers, verifiers, Error(rsaKey.error))
  ELSE Classified(
         IF rsaKey.value.second = "PRIVATE"
         THEN MapInsert(signers, kid, RSASigner(rsaKey.value.first, id))
         ELSE signers,
         IF rsaKey.value.second = "PUBLIC"
         THEN MapInsert(verifiers, kid, RSAVerifier(rsaKey.value.first, id))
         ELSE verifiers,
         Error(<<"Unsupported key type: ">> \o kty))

\* ClassifyJwk rejecting a key whose 'use' is anything but "sig".
ClassifyJwkForSigOnly(kty, kid, jwk, id, signers, verifiers) ==
  IF kty.isError
  THEN Classified(signers, verifiers,
                  Error(<<"Failed to parse JWK: ">> \o kty.error))
  ELSE IF kid.isError
  THEN Classified(signers, verifiers,
                  Error(<<"Failed to parse JWK: ">> \o kid.error))
  ELSE IF kty.value = <<"R", "S", "A">>
          /\ jwk["use"] \in {Absent, JString(<<"s", "i", "g">>)}
  THEN ClassifyRSA(kty.value, kid.value, JwkToRSAKey(jwk), id,
                   signers, verifiers)
  ELSE Classified(signers, verifiers,
                  Error(<<"Unsupported key type: ">> \o kty.value))

\* parseAndClassifyJwk, from the kty and kid found.
ClassifyJwk(kty, kid, jwk, id, signers, verifiers) ==
  IF kty.isError
  THEN Classified(signers, verifiers,
                  Error(<<"Failed to parse JWK: ">> \o kty.error))
  ELSE IF kid.isError
  THEN Classified(signers, verifiers,
                  Error(<<"Failed to parse JWK: ">> \o kid.error))
  ELSE IF kty.value = <<"R", "S", "A">>
  THEN ClassifyRSA(kty.value, kid.value, JwkToRSAKey(jwk), id,
                   signers, verifiers)
  ELSE Classified(signers, verifiers,
                  Error(<<"Unsupported key type: ">> \o kty.value))

ParseAndClassifyJwk(jwk, id, signers, verifiers) ==
  ClassifyJwk(FindStringValueInJson(jwk, "kty"),
              FindStringValueInJson(jwk, "kid"), jwk, id, signers, verifiers)

\* FindVerifier searching the map of signers.
FindVerifierInSigners(jwkSet, kid) ==
  IF kid \in DOMAIN jwkSet.m_signers
  THEN Some(jwkSet.m_signers[kid])
  ELSE Error(<<"Verifier with kid \"">> \o kid \o <<"\" has not been found.">>)

\* JwkSet::findSigner / JwkSet::findVerifier on a constructed JwkSet.
FindSigner(jwkSet, kid) ==
  IF kid \in DOMAIN jwkSet.m_signers
  THEN Some(jwkSet.m_signers[kid])
  ELSE Error(<<"Signer with kid \"">> \o kid \o <<"\" has not been found.">>)

FindVerifier(jwkSet, kid) ==
  IF kid \in DOMAIN jwkSet.m_verifiers
  THEN Some(jwkSet.m_verifiers[kid])
  ELSE Error(<<"Verifier with kid \"">> \o kid \o <<"\" has not been found.">>)

\* ------------------------------------------------------------ the inputs

\* A key object gives every member name a JSON value or Absent.
KeyObject(kty, kid, n, e, d) ==
  [f \in FieldNames |->
     CASE f = "kty" -> kty
       [] f = "kid" -> kid
       [] f = "n" -> n
       [] f = "e" -> e
       [] f = "d" -> d
       [] OTHER -> Absent]

\* Sample member values. Strings are those of jwk_set_tests.cpp, cut short.
Kid1 == <<"k", "1">>
Kid2 == <<"k", "2">>
Kids == {Kid1, Kid2}
GoodKty == JString(<<"R", "S", "A">>)
GoodN == JString(<<"a", "b", "c">>)
GoodE == JString(<<"A", "Q", "A", "B">>)
GoodD == JString(<<"b", "z", "S", "D">>)
BadBase64 == JString(<<"a", "(", "b", "c">>)

KtyValues == {Absent, JNumber, JString(<<"E", "C">>), GoodKty}
KidValues == {Absent, JNumber} \cup {JString(k) : k \in Kids}
NValues == {Absent, JNumber, BadBase64, GoodN}
EValues == {Absent, JNumber, BadBase64, GoodE}
DValues == {Absent, JNumber, BadBase64, GoodD}

\* The members of a key object that are not those of a well-formed RSA key
\* (public: no d; private: a decodable d).
Deviations(k) ==
  {f \in {"kty", "kid", "n", "e", "d"} :
     CASE f = "kty" -> k[f] # GoodKty
       [] f = "kid" -> k[f].type # "string"
       [] f = "n" -> k[f] # GoodN
       [] f = "e" -> k[f] # GoodE
       [] f = "d" -> k[f] \notin {Absent, GoodD}}

\* Every combination of the sample member values.
AllKeyObjects ==
  {KeyObject(kty, kid, n, e, d) :
     kty \in KtyValues, kid \in KidValues, n \in NValues,
     e \in EValues, d \in DValues}

\* The key objects of the documents of several keys: the well-formed keys
\* of either kid, and every key that deviates in a single member from a
\* well-formed key of the first kid.
KeyObjects ==
  {k \in AllKeyObjects :
     \/ Deviations(k) = {}
     \/ Cardinality(Deviations(k)) = 1 /\ k["kid"] # JString(Kid2)}

\* An element of the 'keys' array: a JSON object or some other JSON value.
ObjectElement(k) == [type |-> "object", object |-> k]
NonObjectElement ==
  [type |-> "number", object |-> KeyObject(Absent, Absent, Absent, Absent, Absent)]
Elements == {ObjectElement(k) : k \in KeyObjects} \cup {NonObjectElement}

\* The JwkSet constructed from two maps.
JwkSet(s, v) == [m_signers |-> s, m_verifiers |-> v]

\* The loop of JwkSet::parse as a function of the elements left, each with
\* its position in 'keys', and of the registries so far.
RECURSIVE ClassifyAll(_, _, _)
ClassifyAll(items, signers, verifiers) ==
  IF items = <<>> THEN JwkSet(signers, verifiers)
  ELSE LET r == ParseAndClassifyJwk(Head(items).object, Head(items).at,
                                     signers, verifiers)
       IN ClassifyAll(Tail(items), r.signers, r.verifiers)

SeqsUpTo(S, n) == UNION {[1..m -> S] : m \in 0..n}

\* A document: text that is a JSON object or not, and its 'keys' member.
Document(json, type, values) ==
  [json |-> json, keys |-> [type |-> type, values |-> values]]

\* The input documents: the ill-structured ones, the arrays of up to MaxKeys
\* elements, and the arrays of one key object of any combination.
Documents ==
  {Document("invalid", "absent", <<>>), Document("array", "absent", <<>>),
   Document("object", "absent", <<>>), Document("object", "string", <<>>)}
  \cup {Document("object", "array", vs) : vs \in SeqsUpTo(Elements, MaxKeys)}
  \cup {Document("object", "array", <<ObjectElement(k)>>) : k \in AllKeyObjects}

\* --------------------------------------------------------------- the state

VARIABLES
  doc,        \* the text given to JwkSet::parse
  pc,         \* where parse stands: "start", "loop", "done"
  idx,        \* the position in 'keys' of the next element
  signers,    \* parse's local map of signers
  verifiers,  \* parse's local map of verifiers
  log,        \* the warnings logged, each with the position of its element
  examined,   \* the positions given to parseAndClassifyJwk
  ret,        \* what parse returned (when pc = "done")
  found       \* the last lookup on the returned JwkSet and its result

parseVars == <<doc, pc, idx, signers, verifiers, log, examined, ret, found>>

\* The threads that look kids up in the JwkSet parse returned.
VARIABLES
  readers     \* for each reader, the call of findSigner / findVerifier it is in

\* One call of parseAndClassifyJwk, followed statement by statement.
VARIABLES
  object,      \* the key object the call is given
  stage,       \* where the call stands
  kind,        \* the KeyType jwkToRSAKey chose: "PUBLIC", "PRIVATE" or "none"
  asked,       \* the member names given to extractBigNum, in order
  bigNums,     \* the map of extractBigNums: member name -> BIGNUM held
  owner,       \* for each big-integer member, who owns the BIGNUM decoded
  built,       \* <<rsa>> once RSA_new() made the key, <<>> before
  callSigners,    \* the map of signers the call was given
  callVerifiers,  \* the map of verifiers the call was given
  callRes      \* what the call returned (when stage = "done")

keyVars == <<object, stage, kind, asked, bigNums, owner, built,
             callSigners, callVerifiers, callRes>>

\* One call of enforceNetworkBandwidthAllocation.
VARIABLES
  task,                 \* the TaskInfo: its resources and its labels
  slaveTotalResources,  \* the resources the slave advertises
  consulted,            \* what the call has read: "label", "slave"
  enforcing,            \* where the call stands
  enforced              \* what the call returned (when enforcing = "done")

nbVars == <<task, slaveTotalResources, consulted, enforcing, enforced>>

vars == <<parseVars, readers, keyVars, nbVars>>

NoLookup == [op |-> "none", kid |-> <<>>, res |-> Some(<<>>)]

\* The big-integer members of a key object.
BigNumFields == {"n", "e", "d", "p", "q", "dp", "dq", "qi"}

\* No call of JwkSet::parse is under way.
ParseIdle ==
  /\ doc = [json |-> "object", keys |-> [type |-> "array", values |-> <<>>]]
  /\ pc = "idle"
  /\ idx = 0
  /\ signers = <<>>
  /\ verifiers = <<>>
  /\ log = <<>>
  /\ examined = {}
  /\ ret = Some(<<>>)
  /\ found = NoLookup

\* The readers, and the state of a reader that is in no call.
MaxReaders == 2
ReaderIds == 1..MaxReaders
NoCall == [at |-> "idle", op |-> "none", kid |-> <<>>, it |-> <<>>,
           res |-> Some(<<>>)]
ReadersIdle == readers = [r \in ReaderIds |-> NoCall]

\* No call of parseAndClassifyJwk is followed.
KeyIdle ==
  /\ object = [f \in FieldNames |-> Absent]
  /\ stage = "idle"
  /\ kind = "none"
  /\ asked = <<>>
  /\ bigNums = <<>>
  /\ owner = [f \in BigNumFields |-> "none"]
  /\ built = <<>>
  /\ callSigners = <<>>
  /\ callVerifiers = <<>>
  /\ callRes = Some(<<>>)

\* No call of enforceNetworkBandwidthAllocation is under way.
NBIdle ==
  /\ task = [resources |-> <<>>, labels |-> <<>>]
  /\ slaveTotalResources = <<>>
  /\ consulted = {}
  /\ enforcing = "idle"
  /\ enforced = Some(<<>>)

Init ==
  /\ doc \in Documents
  /\ pc = "start"
  /\ idx = 0
  /\ signers = EmptyMap
  /\ verifiers = EmptyMap
  /\ log = <<>>
  /\ examined = {}
  /\ ret = Some(<<>>)
  /\ found = NoLookup
  /\ ReadersIdle
  /\ KeyIdle
  /\ NBIdle

\* parse returns an error: its locals are destroyed with it.
ReturnError(msg) ==
  /\ ret' = Error(msg)
  /\ pc' = "done"
  /\ signers' = EmptyMap
  /\ verifiers' = EmptyMap

\* ParseJson without the check that 'keys' is an array.
ParseJsonNoArrayCheck ==
  /\ pc = "start"
  /\ IF doc.json # "object"
     THEN ReturnError(<<"Failed to parse into JSON: ">>) /\ UNCHANGED idx
     ELSE IF doc.keys.type = "absent"
     THEN ReturnError(<<"Failed to locate 'keys' in JWK">>) /\ UNCHANGED idx
     ELSE /\ pc' = "loop"
          /\ idx' = 1
          /\ signers' = EmptyMap
          /\ verifiers' = EmptyMap
          /\ UNCHANGED ret
  /\ UNCHANGED <<doc, log, examined, found>>
  /\ UNCHANGED <<readers, keyVars, nbVars>>

\* JwkSet::parse up to its loop.
ParseJson ==
  /\ pc = "start"
  /\ IF doc.json # "object"
     THEN ReturnError(<<"Failed to parse into JSON: ">>) /\ UNCHANGED idx
     ELSE IF doc.keys.type = "absent"
     THEN ReturnError(<<"Failed to locate 'keys' in JWK">>) /\ UNCHANGED idx
     ELSE IF doc.keys.type # "array"
     THEN ReturnError(<<"Token 'keys' is not an array">>) /\ UNCHANGED idx
     ELSE /\ pc' = "loop"
          /\ idx' = 1
          /\ signers' = EmptyMap
          /\ verifiers' = EmptyMap
          /\ UNCHANGED ret
  /\ UNCHANGED <<doc, log, examined, found>>
  /\ UNCHANGED <<readers, keyVars, nbVars>>

\* AfterClassify returning the error of the key instead of logging it.
AfterClassifyPropagating(r) ==
  IF r.res.isError
  THEN ReturnError(r.res.error) /\ UNCHANGED <<idx, log, examined>>
  ELSE /\ signers' = r.signers
       /\ verifiers' = r.verifiers
       /\ examined' = examined \cup {idx}
       /\ idx' = idx + 1
       /\ UNCHANGED <<pc, ret, log>>

\* The loop body after parseAndClassifyJwk returned r: the registries are
\* those it left, and its error, if any, is logged as a warning.
AfterClassify(r) ==
  /\ signers' = r.signers
  /\ verifiers' = r.verifiers
  /\ log' = IF r.res.isError
            THEN Append(log, [at |-> idx, warning |-> r.res.error])
            ELSE log
  /\ examined' = examined \cup {idx}
  /\ idx' = idx + 1
  /\ UNCHANGED <<pc, ret>>

\* ParseLoop passing over an element that is not an object.
ParseLoopSkipping ==
  /\ pc = "loop"
  /\ idx <= Len(doc.keys.values)
  /\ IF doc.keys.values[idx].type # "object"
     THEN /\ idx' = idx + 1
          /\ UNCHANGED <<pc, ret, signers, verifiers, log, examined>>
     ELSE AfterClassify(ParseAndClassifyJwk(doc.keys.values[idx].object, idx,
                                            signers, verifiers))
  /\ UNCHANGED <<doc, found>>
  /\ UNCHANGED <<readers, keyVars, nbVars>>

\* One turn of the loop over 'keys'.
ParseLoop ==
  /\ pc = "loop"
  /\ idx <= Len(doc.keys.values)
  /\ IF doc.keys.values[idx].type # "object"
     THEN /\ ReturnError(<<"'keys' must contain objects only">>)
          /\ UNCHANGED <<idx, log, examined>>
     ELSE AfterClassify(ParseAndClassifyJwk(doc.keys.values[idx].object, idx,
                                            signers, verifiers))
  /\ UNCHANGED <<doc, found>>
  /\ UNCHANGED <<readers, keyVars, nbVars>>

\* The loop is over: the maps are moved into the JwkSet returned.
ParseReturn ==
  /\ pc = "loop"
  /\ idx > Len(doc.keys.values)
  /\ ret' = Some(JwkSet(signers, verifiers))
  /\ pc' = "done"
  /\ signers' = EmptyMap
  /\ verifiers' = EmptyMap
  /\ UNCHANGED <<doc, idx, log, examined, found>>
  /\ UNCHANGED <<readers, keyVars, nbVars>>

FindSignerCall ==
  /\ pc = "done"
  /\ ~ret.isError
  /\ \E kid \in Kids :
       found' = [op |-> "findSigner", kid |-> kid, res |-> FindSigner(ret.value, kid)]
  /\ UNCHANGED <<doc, pc, idx, signers, verifiers, log, examined, ret>>
  /\ UNCHANGED <<readers, keyVars, nbVars>>

FindVerifierCall ==
  /\ pc = "done"
  /\ ~ret.isError
  /\ \E kid \in Kids :
       found' = [op |-> "findVerifier", kid |-> kid,
                 res |-> FindVerifier(ret.value, kid)]
  /\ UNCHANGED <<doc, pc, idx, signers, verifiers, log, examined, ret>>
  /\ UNCHANGED <<readers, keyVars, nbVars>>

Next ==
  \/ ParseJson
  \/ ParseLoop
  \/ ParseReturn
  \/ FindSignerCall
  \/ FindVerifierCall

Spec == Init /\ [][Next]_vars

\* ------------------------------------------------ documents with 'use'

\* Values of the member 'use': "sig" is the one of jwk_set_tests.cpp.
UseValues == {Absent, JNumber, JString(<<"s", "i", "g">>),
              JString(<<"e", "n", "c">>)}

WithUse(k, use) == [k EXCEPT !["use"] = use]

\* Key objects to put a 'use' on: a public and a private key of the first
\* kid, a public key of the second and a key of kty "EC".
UseKeyObjects ==
  {KeyObject(GoodKty, JString(Kid1), GoodN, GoodE, Absent),
   KeyObject(GoodKty, JString(Kid1), GoodN, GoodE, GoodD),
   KeyObject(GoodKty, JString(Kid2), GoodN, GoodE, Absent),
   KeyObject(JString(<<"E", "C">>), JString(Kid1), GoodN, GoodE, Absent)}

UseElements ==
  {ObjectElement(WithUse(k, use)) : k \in UseKeyObjects, use \in UseValues}
  \cup {NonObjectElement}

\* The documents of up to MaxKeys such elements.
UseDocuments ==
  {Document("object", "array", vs) : vs \in SeqsUpTo(UseElements, MaxKeys)}

InitUse ==
  /\ doc \in UseDocuments
  /\ pc = "start"
  /\ idx = 0
  /\ signers = EmptyMap
  /\ verifiers = EmptyMap
  /\ log = <<>>
  /\ examined = {}
  /\ ret = Some(<<>>)
  /\ found = NoLookup
  /\ ReadersIdle
  /\ KeyIdle
  /\ NBIdle

SpecUse == InitUse /\ [][Next]_vars

\* JwkSet::parse as a function of the document.
Parse(d) ==
  IF d.json # "object" THEN Error(<<"Failed to parse into JSON: ">>)
  ELSE IF d.keys.type = "absent"
  THEN Error(<<"Failed to locate 'keys' in JWK">>)
  ELSE IF d.keys.type # "array" THEN Error(<<"Token 'keys' is not an array">>)
  ELSE IF \E i \in 1..Len(d.keys.values) : d.keys.values[i].type # "object"
  THEN Error(<<"'keys' must contain objects only">>)
  ELSE Some(ClassifyAll([i \in 1..Len(d.keys.values) |->
                           [at |-> i, object |-> d.keys.values[i].object]],
                        EmptyMap, EmptyMap))

\* ------------------------------------------- lookups by several readers

\* The documents whose JwkSet the readers share: up to MaxKeys well-formed
\* keys, public or private, of either kid.
ReaderDocuments ==
  {Document("object", "array", vs) :
     vs \in SeqsUpTo({ObjectElement(k) : k \in {o \in KeyObjects :
                                                  Deviations(o) = {}}},
                     MaxKeys)}

InitReaders == Init /\ doc \in ReaderDocuments

\* The registry a lookup searches.
RegistryOf(jwkSet, op) ==
  IF op = "findSigner" THEN jwkSet.m_signers ELSE jwkSet.m_verifiers

\* Reader r calls findSigner or findVerifier on the JwkSet with some kid.
ReaderCall(r) ==
  /\ pc = "done"
  /\ ~ret.isError
  /\ readers[r].at \in {"idle", "returned"}
  /\ \E op \in {"findSigner", "findVerifier"}, kid \in Kids :
       readers' = [readers EXCEPT ![r] =
                     [at |-> "called", op |-> op, kid |-> kid, it |-> <<>>,
                      res |-> Some(<<>>)]]
  /\ UNCHANGED <<parseVars, keyVars, nbVars>>

\* ReaderFind through std::map::operator[], which inserts a missing kid
\* with a null capability.
ReaderFindInserting(r) ==
  /\ readers[r].at = "called"
  /\ readers' = [readers EXCEPT ![r].at = "found", ![r].it = <<readers[r].kid>>]
  /\ ret' = IF readers[r].kid \in DOMAIN RegistryOf(ret.value, readers[r].op)
            THEN ret
            ELSE IF readers[r].op = "findSigner"
            THEN Some(JwkSet(ret.value.m_signers
                               @@ (readers[r].kid :> RSASigner(RSANew, 0)),
                             ret.value.m_verifiers))
            ELSE Some(JwkSet(ret.value.m_signers,
                             ret.value.m_verifiers
                               @@ (readers[r].kid :> RSAVerifier(RSANew, 0))))
  /\ UNCHANGED <<doc, pc, idx, signers, verifiers, log, examined, found>>
  /\ UNCHANGED <<keyVars, nbVars>>

\* it = m_signers.find(kid) / m_verifiers.find(kid): the entry under kid, or
\* the end of the map (<<>>).
ReaderFind(r) ==
  /\ readers[r].at = "called"
  /\ readers' = [readers EXCEPT
                   ![r].at = "found",
                   ![r].it = IF readers[r].kid
                                  \in DOMAIN RegistryOf(ret.value, readers[r].op)
                             THEN <<readers[r].kid>> ELSE <<>>]
  /\ UNCHANGED <<parseVars, keyVars, nbVars>>

\* The test of the iterator and the return.
ReaderReturn(r) ==
  /\ readers[r].at = "found"
  /\ readers' = [readers EXCEPT
                   ![r].at = "returned",
                   ![r].res =
                     IF readers[r].it # <<>>
                     THEN Some(RegistryOf(ret.value, readers[r].op)
                                 [readers[r].it[1]])
                     ELSE Error((IF readers[r].op = "findSigner"
                                 THEN <<"Signer with kid \"">>
                                 ELSE <<"Verifier with kid \"">>)
                                \o readers[r].kid
                                \o <<"\" has not been found.">>)]
  /\ UNCHANGED <<parseVars, keyVars, nbVars>>

NextReaders ==
  \/ ParseJson
  \/ ParseLoop
  \/ ParseReturn
  \/ \E r \in ReaderIds : ReaderCall(r)
  \/ \E r \in ReaderIds : ReaderFind(r)
  \/ \E r \in ReaderIds : ReaderReturn(r)

SpecReaders == InitReaders /\ [][NextReaders]_vars

\* --------------------------------- parseAndClassifyJwk, step by step

\* Sample values of the optional members (jwk_set_tests.cpp, cut short).
GoodP == JString(<<"A", "O", "W", "4">>)
GoodQ == JString(<<"A", "M", "1", "m">>)
GoodDp == JString(<<"A", "L", "f", "f">>)
GoodDq == JString(<<"T", "H", "A", "T">>)
GoodQi == JString(<<"H", "w", "H", "4">>)

PValues == {Absent, JNumber, BadBase64, GoodP}
QValues == {Absent, JNumber, BadBase64, GoodQ}
DpValues == {Absent, JNumber, BadBase64, GoodDp}
DqValues == {Absent, JNumber, BadBase64, GoodDq}
QiValues == {Absent, JNumber, BadBase64, GoodQi}

\* The key object k with the given optional members.
WithOptional(k, p, q, dp, dq, qi) ==
  [k EXCEPT !["p"] = p, !["q"] = q, !["dp"] = dp, !["dq"] = dq, !["qi"] = qi]

\* The key objects a call is followed on: every combination of kty, kid, n,
\* e and d without optional members; every combination of d and of the
\* optional members on a key with good kty, kid, n and e; and every
\* combination of n, e and d on a key with all the optional members.
KeyInputs ==
  AllKeyObjects
  \cup {WithOptional(KeyObject(GoodKty, JString(Kid1), GoodN, GoodE, d),
                     p, q, dp, dq, qi) :
          d \in DValues, p \in PValues, q \in QValues,
          dp \in DpValues, dq \in DqValues, qi \in QiValues}
  \cup {WithOptional(KeyObject(GoodKty, JString(Kid1), n, e, d),
                     GoodP, GoodQ, GoodDp, GoodDq, GoodQi) :
          n \in NValues, e \in EValues, d \in DValues}

\* The key lists jwkToRSAPublicKey and jwkToRSAPrivateKey give extractBigNums.
RequiredKeys(keyType) ==
  IF keyType = "PRIVATE" THEN <<"e", "n", "d">> ELSE <<"e", "n">>
OptionalKeys(keyType) ==
  IF keyType = "PRIVATE" THEN <<"p", "q", "dp", "dq", "qi">> ELSE <<>>

\* What jwkToRSAPublicKey / jwkToRSAPrivateKey put before an error.
FailedToCreate(keyType) ==
  IF keyType = "PRIVATE" THEN <<"Failed to create RSA private key: ">>
  ELSE <<"Failed to create RSA public key: ">>

InitKey ==
  /\ ParseIdle
  /\ ReadersIdle
  /\ NBIdle
  /\ object \in KeyInputs
  /\ stage = "kty"
  /\ kind = "none"
  /\ asked = <<>>
  /\ bigNums = EmptyMap
  /\ owner = [f \in BigNumFields |-> "none"]
  /\ built = <<>>
  /\ callSigners = EmptyMap
  /\ callVerifiers = EmptyMap
  /\ callRes = Some(<<>>)

\* parseAndClassifyJwk returns res.
CallReturn(res) ==
  /\ callRes' = res
  /\ stage' = "done"

\* A map of BIGNUM_unique_ptr is destroyed: each pointer it still holds is
\* given to BN_free.
Destroyed(own) ==
  [f \in BigNumFields |-> IF own[f] = "holder" THEN "freed" ELSE own[f]]

\* unique_ptr::release on the entries of the map under the names in keys:
\* the map holds null pointers there afterwards.
Released(map, keys) ==
  [key \in DOMAIN map |-> IF key \in keys THEN Nullptr ELSE map[key]]

FindKty ==
  /\ stage = "kty"
  /\ IF FindStringValueInJson(object, "kty").isError
     THEN CallReturn(Error(<<"Failed to parse JWK: ">>
                           \o FindStringValueInJson(object, "kty").error))
     ELSE stage' = "kid" /\ UNCHANGED callRes
  /\ UNCHANGED <<object, kind, asked, bigNums, owner, built,
                 callSigners, callVerifiers>>
  /\ UNCHANGED <<parseVars, readers, nbVars>>

FindKid ==
  /\ stage = "kid"
  /\ IF FindStringValueInJson(object, "kid").isError
     THEN CallReturn(Error(<<"Failed to parse JWK: ">>
                           \o FindStringValueInJson(object, "kid").error))
     ELSE stage' = "dispatch" /\ UNCHANGED callRes
  /\ UNCHANGED <<object, kind, asked, bigNums, owner, built,
                 callSigners, callVerifiers>>
  /\ UNCHANGED <<parseVars, readers, nbVars>>

\* The test on kty: any kty but "RSA" goes to the last statement.
DispatchKty ==
  /\ stage = "dispatch"
  /\ IF FindStringValueInJson(object, "kty").value = <<"R", "S", "A">>
     THEN stage' = "classify" /\ UNCHANGED callRes
     ELSE CallReturn(Error(<<"Unsupported key type: ">>
                           \o FindStringValueInJson(object, "kty").value))
  /\ UNCHANGED <<object, kind, asked, bigNums, owner, built,
                 callSigners, callVerifiers>>
  /\ UNCHANGED <<parseVars, readers, nbVars>>

\* ClassifyByD asking for a private key whenever the key object has a d.
ClassifyByDPresence ==
  /\ stage = "classify"
  /\ kind' = IF object["d"].type # "absent" THEN "PRIVATE" ELSE "PUBLIC"
  /\ stage' = "required"
  /\ UNCHANGED <<object, asked, bigNums, owner, built,
                 callSigners, callVerifiers, callRes>>
  /\ UNCHANGED <<parseVars, readers, nbVars>>

\* jwkToRSAKey chooses the builder: the private one when d is a string.
ClassifyByD ==
  /\ stage = "classify"
  /\ kind' = IF ~FindStringValueInJson(object, "d").isError
             THEN "PRIVATE" ELSE "PUBLIC"
  /\ stage' = "required"
  /\ UNCHANGED <<object, asked, bigNums, owner, built,
                 callSigners, callVerifiers, callRes>>
  /\ UNCHANGED <<parseVars, readers, nbVars>>

\* The stage after the extraction of the n-th key of the two lists.
StageAfter(n, keyType) ==
  IF n < Len(RequiredKeys(keyType)) THEN "required"
  ELSE IF n < Len(RequiredKeys(keyType)) + Len(OptionalKeys(keyType))
  THEN "optional"
  ELSE "setkey"

\* ExtractedRequired putting a null pointer for a required key that failed.
ExtractedRequiredLenient(key, bigNum) ==
  /\ asked' = Append(asked, key)
  /\ bigNums' = MapInsert(bigNums, key,
                          IF bigNum.isError THEN Nullptr ELSE bigNum.value)
  /\ owner' = IF bigNum.isError THEN owner
              ELSE [owner EXCEPT ![key] = "holder"]
  /\ stage' = StageAfter(Len(asked) + 1, kind)
  /\ UNCHANGED callRes

\* The body of the loop over requiredKeys, bigNum being what extractBigNum
\* returned for key: an error ends extractBigNums, the builder, jwkToRSAKey
\* and the call, and the map built so far is destroyed.
ExtractedRequired(key, bigNum) ==
  /\ asked' = Append(asked, key)
  /\ IF bigNum.isError
     THEN /\ CallReturn(Error(FailedToCreate(kind) \o bigNum.error))
          /\ bigNums' = EmptyMap
          /\ owner' = Destroyed(owner)
     ELSE /\ bigNums' = MapInsert(bigNums, key, bigNum.value)
          /\ owner' = [owner EXCEPT ![key] = "holder"]
          /\ stage' = StageAfter(Len(asked) + 1, kind)
          /\ UNCHANGED callRes

ExtractRequiredKey ==
  /\ stage = "required"
  /\ ExtractedRequired(
       RequiredKeys(kind)[Len(asked) + 1],
       ExtractBigNum(object, RequiredKeys(kind)[Len(asked) + 1]))
  /\ UNCHANGED <<object, kind, built, callSigners, callVerifiers>>
  /\ UNCHANGED <<parseVars, readers, nbVars>>

\* ExtractedOptional failing as a required key does.
ExtractedOptionalStrict(key, bigNum) ==
  ExtractedRequired(key, bigNum)

\* The body of the loop over optionalKeys: an error leaves a null pointer.
ExtractedOptional(key, bigNum) ==
  /\ asked' = Append(asked, key)
  /\ bigNums' = MapInsert(bigNums, key,
                          IF bigNum.isError THEN Nullptr ELSE bigNum.value)
  /\ owner' = IF bigNum.isError THEN owner
              ELSE [owner EXCEPT ![key] = "holder"]
  /\ stage' = StageAfter(Len(asked) + 1, kind)
  /\ UNCHANGED callRes

ExtractOptionalKey ==
  /\ stage = "optional"
  /\ ExtractedOptional(
       OptionalKeys(kind)[Len(asked) - Len(RequiredKeys(kind)) + 1],
       ExtractBigNum(object,
         OptionalKeys(kind)[Len(asked) - Len(RequiredKeys(kind)) + 1]))
  /\ UNCHANGED <<object, kind, built, callSigners, callVerifiers>>
  /\ UNCHANGED <<parseVars, readers, nbVars>>

\* RSA_new and RSA_set0_key on the released n, e and (private key) d; the
\* public builder returns the key and its map is destroyed.
SetKey ==
  /\ stage = "setkey"
  /\ built' = <<RSASet0Key(RSANew, bigNums["n"], bigNums["e"],
                           IF kind = "PRIVATE" THEN bigNums["d"]
                           ELSE Nullptr)>>
  /\ owner' = [f \in BigNumFields |->
                 IF f \in SeqRange(RequiredKeys(kind)) THEN "rsa"
                 ELSE owner[f]]
  /\ bigNums' = IF kind = "PRIVATE"
                THEN Released(bigNums, SeqRange(RequiredKeys(kind)))
                ELSE EmptyMap
  /\ stage' = IF kind = "PRIVATE" THEN "factors" ELSE "insert"
  /\ UNCHANGED <<object, kind, asked, callSigners, callVerifiers, callRes>>
  /\ UNCHANGED <<parseVars, readers, nbVars>>

\* Who owns the BIGNUMs findOrNullptr released from the map under the names
\* in keys: the RSA key if they were installed, nobody otherwise.
OwnerAfterRelease(own, map, keys, installed) ==
  [f \in BigNumFields |->
     IF f \in keys /\ map[f] # Nullptr
     THEN IF installed THEN "rsa" ELSE "released"
     ELSE own[f]]

\* findOrNullptr("p"), findOrNullptr("q") and the conditional
\* RSA_set0_factors.
ReleaseFactors ==
  /\ stage = "factors"
  /\ built' = <<SetFactors(built[1], bigNums["p"], bigNums["q"])>>
  /\ owner' = OwnerAfterRelease(owner, bigNums, {"p", "q"},
                SetFactors(built[1], bigNums["p"], bigNums["q"]) # built[1])
  /\ bigNums' = Released(bigNums, {"p", "q"})
  /\ stage' = "crt"
  /\ UNCHANGED <<object, kind, asked, callSigners, callVerifiers, callRes>>
  /\ UNCHANGED <<parseVars, readers, nbVars>>

\* findOrNullptr on dp, dq and qi and the conditional RSA_set0_crt_params;
\* the private builder returns the key and its map is destroyed.
ReleaseCrtParams ==
  /\ stage = "crt"
  /\ built' = <<SetCrtParams(built[1], bigNums["dp"], bigNums["dq"],
                             bigNums["qi"])>>
  /\ owner' = OwnerAfterRelease(owner, bigNums, {"dp", "dq", "qi"},
                SetCrtParams(built[1], bigNums["dp"], bigNums["dq"],
                             bigNums["qi"]) # built[1])
  /\ bigNums' = EmptyMap
  /\ stage' = "insert"
  /\ UNCHANGED <<object, kind, asked, callSigners, callVerifiers, callRes>>
  /\ UNCHANGED <<parseVars, readers, nbVars>>

\* The call ends with what ClassifyRSA left.
Inserted(r) ==
  /\ callSigners' = r.signers
  /\ callVerifiers' = r.verifiers
  /\ CallReturn(r.res)

\* The key is wrapped and inserted, and the call returns.
InsertCapability ==
  /\ stage = "insert"
  /\ Inserted(ClassifyRSA(FindStringValueInJson(object, "kty").value,
                          FindStringValueInJson(object, "kid").value,
                          Some([first |-> built[1], second |-> kind]), 1,
                          callSigners, callVerifiers))
  /\ UNCHANGED <<object, kind, asked, bigNums, owner, built>>
  /\ UNCHANGED <<parseVars, readers, nbVars>>

NextKey ==
  \/ FindKty
  \/ FindKid
  \/ DispatchKty
  \/ ClassifyByD
  \/ ExtractRequiredKey
  \/ ExtractOptionalKey
  \/ SetKey
  \/ ReleaseFactors
  \/ ReleaseCrtParams
  \/ InsertCapability

SpecKey == InitKey /\ [][NextKey]_vars

\* ------------------------------------ enforceNetworkBandwidthAllocation

NETWORK_BANDWIDTH_LABEL_NAME == "NETWORK_BANDWIDTH_RESOURCE"
NETWORK_BANDWIDTH_RESOURCE_NAME == "network_bandwidth"
CPUS_RESOURCE_NAME == "cpus"

\* Option<T>: None is <<>>, a value v is <<v>>.
None == <<>>
OptionOf(v) == <<v>>

\* A double that holds the quotient num / den, in lowest terms.
RECURSIVE Gcd(_, _)
Gcd(a, b) == IF b = 0 THEN a ELSE Gcd(b, a % b)
Double(num, den) ==
  IF num = 0 THEN [num |-> 0, den |-> 1]
  ELSE [num |-> num \div Gcd(num, den), den |-> den \div Gcd(num, den)]
Times(x, y) == Double(x.num * y.num, x.den * y.den)
Over(x, y) == Double(x.num * y.den, x.den * y.num)

\* A Resource: scalar, with the role of its allocation_info.
Resource(name, role, value) ==
  [name |-> name, type |-> "SCALAR", role |-> role, scalar |-> value]

Label(key, value) == [key |-> key, value |-> value]

\* GetUnreservedResource looking at the first resource only.
GetUnreservedResourceFirstOnly(resources, resourceName) ==
  IF /\ resources # <<>>
     /\ resources[1].name = resourceName /\ resources[1].role = "*"
  THEN OptionOf(resources[1])
  ELSE None

\* The first resource of the name whose allocation role is "*".
GetUnreservedResource(resources, resourceName) ==
  IF \E i \in 1..Len(resources) :
       resources[i].name = resourceName /\ resources[i].role = "*"
  THEN OptionOf(resources[
         CHOOSE i \in 1..Len(resources) :
           /\ resources[i].name = resourceName /\ resources[i].role = "*"
           /\ \A j \in 1..(i - 1) :
                ~(resources[j].name = resourceName /\ resources[j].role = "*")])
  ELSE None

GetLabel(labels, labelKey) ==
  IF \E i \in 1..Len(labels) : labels[i].key = labelKey
  THEN OptionOf(labels[
         CHOOSE i \in 1..Len(labels) :
           /\ labels[i].key = labelKey
           /\ \A j \in 1..(i - 1) : labels[j].key # labelKey])
  ELSE None

AddNetworkBandwidth(t, amount) ==
  [t EXCEPT !.resources =
     Append(@, Resource(NETWORK_BANDWIDTH_RESOURCE_NAME, "*", amount))]

\* ShareOfCpu testing the CPUs before the slave's network bandwidth.
ShareOfCpuCpusFirst(totalNetworkBandwidth, totalCpus, reservedCpus) ==
  IF totalCpus = None THEN Error(<<"No CPU advertised by the slave.">>)
  ELSE IF reservedCpus = None
  THEN Error(<<"No CPU declared in the task. ",
               "Cannot deduce network bandwidth.">>)
  ELSE IF totalNetworkBandwidth = None THEN Some(None)
  ELSE Some(OptionOf(Times(Over(reservedCpus[1].scalar, totalCpus[1].scalar),
                           totalNetworkBandwidth[1].scalar)))

\* The share of CPU, from the three resources found.
ShareOfCpu(totalNetworkBandwidth, totalCpus, reservedCpus) ==
  IF totalNetworkBandwidth = None THEN Some(None)
  ELSE IF totalCpus = None THEN Error(<<"No CPU advertised by the slave.">>)
  ELSE IF reservedCpus = None
  THEN Error(<<"No CPU declared in the task. ",
               "Cannot deduce network bandwidth.">>)
  ELSE Some(OptionOf(Times(Over(reservedCpus[1].scalar, totalCpus[1].scalar),
                           totalNetworkBandwidth[1].scalar)))

ComputeNetworkBandwidthBasedOnShareOfCpu(taskResources, slaveResources) ==
  ShareOfCpu(
    GetUnreservedResource(slaveResources, NETWORK_BANDWIDTH_RESOURCE_NAME),
    GetUnreservedResource(slaveResources, CPUS_RESOURCE_NAME),
    GetUnreservedResource(taskResources, CPUS_RESOURCE_NAME))

\* std::stof on a string of decimal digits, letters and 'e' (no sign, no
\* blank, no point): the longest prefix that is a number is converted.
DecimalDigits == <<"0", "1", "2", "3", "4", "5", "6", "7", "8", "9">>
IsDigit(c) == \E d \in 1..Len(DecimalDigits) : DecimalDigits[d] = c
DigitValue(c) == (CHOOSE d \in 1..Len(DecimalDigits) : DecimalDigits[d] = c) - 1

\* The length of the longest prefix of s made of digits.
RECURSIVE LeadingDigits(_)
LeadingDigits(s) ==
  IF s = <<>> \/ ~IsDigit(Head(s)) THEN 0 ELSE 1 + LeadingDigits(Tail(s))

RECURSIVE DecimalValue(_)
DecimalValue(s) ==
  IF s = <<>> THEN 0
  ELSE DecimalValue(SubSeq(s, 1, Len(s) - 1)) * 10 + DigitValue(s[Len(s)])

RECURSIVE Pow10(_)
Pow10(k) == IF k = 0 THEN 1 ELSE 10 * Pow10(k - 1)

\* The exponent a number's text ends with: what follows the mantissa is
\* "e" and at least one digit, or is no part of the number.
ExponentOf(rest) ==
  IF Len(rest) >= 2 /\ rest[1] = "e" /\ IsDigit(rest[2])
  THEN DecimalValue(SubSeq(rest, 2, 1 + LeadingDigits(Tail(rest))))
  ELSE 0

\* A float has a mantissa of 24 bits and is below 3.4028235e38.
FloatMantissaBits == 24
FloatMaxExponent10 == 38
FloatMaxDigits == 34028235

RECURSIVE BitLength(_)
BitLength(v) == IF v = 0 THEN 0 ELSE 1 + BitLength(v \div 2)

\* v to the nearest multiple of ulp, a tie going to the even multiple.
RoundToMultiple(v, ulp) ==
  IF 2 * (v % ulp) > ulp \/ (2 * (v % ulp) = ulp /\ (v \div ulp) % 2 = 1)
  THEN (v \div ulp + 1) * ulp
  ELSE (v \div ulp) * ulp

\* The float nearest to the integer v.
RoundToFloat(v) ==
  IF BitLength(v) <= FloatMantissaBits THEN v
  ELSE RoundToMultiple(v, Pow2(BitLength(v) - FloatMantissaBits))

\* The mantissa m (digits its number of digits) times ten to the x is
\* beyond the largest float.
OutOfFloatRange(m, digits, x) ==
  /\ m # 0
  /\ \/ digits - 1 + x > FloatMaxExponent10
     \/ /\ digits - 1 + x = FloatMaxExponent10
        /\ digits <= 8
        /\ m * Pow10(8 - digits) > FloatMaxDigits

\* stof from the mantissa and the exponent read: the float, as a double.
StofOf(m, digits, x) ==
  IF digits = 0 THEN [thrown |-> "invalid_argument", value |-> Double(0, 1)]
  ELSE IF OutOfFloatRange(m, digits, x)
  THEN [thrown |-> "out_of_range", value |-> Double(0, 1)]
  ELSE IF m = 0 THEN [thrown |-> "none", value |-> Double(0, 1)]
  ELSE [thrown |-> "none", value |-> Double(RoundToFloat(m * Pow10(x)), 1)]

Stof(s) ==
  StofOf(DecimalValue(SubSeq(s, 1, LeadingDigits(s))), LeadingDigits(s),
         ExponentOf(SubSeq(s, LeadingDigits(s) + 1, Len(s))))

\* getNetworkBandwidthFromLabel, from the label found.
BandwidthOfLabel(networkBandwidthLabel) ==
  IF networkBandwidthLabel # None
  THEN IF Stof(networkBandwidthLabel[1].value).thrown = "invalid_argument"
       THEN Error(<<"Invalid network bandwidth resource format. ",
                    "Should be an integer.">>)
       ELSE IF Stof(networkBandwidthLabel[1].value).thrown = "out_of_range"
       THEN Error(<<"Network bandwidth amount is out of range.">>)
       ELSE Some(OptionOf(Stof(networkBandwidthLabel[1].value).value))
  ELSE Some(None)

GetNetworkBandwidthFromLabel(labels) ==
  BandwidthOfLabel(GetLabel(labels, NETWORK_BANDWIDTH_LABEL_NAME))

\* The inputs. The lists of resources hold no two resources of one name and
\* role; amounts are positive.
MaxLabels == 2

TaskResourceLists ==
  LET cpus == {<<>>, <<Resource(CPUS_RESOURCE_NAME, "*", Double(1, 1))>>,
               <<Resource(CPUS_RESOURCE_NAME, "r", Double(1, 1))>>}
      bandwidth ==
        {<<>>, <<Resource(NETWORK_BANDWIDTH_RESOURCE_NAME, "*", Double(5, 1))>>,
         <<Resource(NETWORK_BANDWIDTH_RESOURCE_NAME, "r", Double(5, 1))>>,
         <<Resource(NETWORK_BANDWIDTH_RESOURCE_NAME, "r", Double(5, 1)),
           Resource(NETWORK_BANDWIDTH_RESOURCE_NAME, "*", Double(7, 1))>>}
  IN {c \o b : c \in cpus, b \in bandwidth}
     \cup {b \o c : c \in cpus, b \in bandwidth}

SlaveResourceLists ==
  LET cpus == {<<>>, <<Resource(CPUS_RESOURCE_NAME, "*", Double(4, 1))>>,
               <<Resource(CPUS_RESOURCE_NAME, "r", Double(4, 1))>>}
      bandwidth ==
        {<<>>,
         <<Resource(NETWORK_BANDWIDTH_RESOURCE_NAME, "*", Double(100, 1))>>,
         <<Resource(NETWORK_BANDWIDTH_RESOURCE_NAME, "r", Double(100, 1))>>}
  IN {c \o b : c \in cpus, b \in bandwidth}

\* Label values: an amount, no number, a number followed by letters, a
\* number beyond the floats, and an integer that is no float.
LabelValues ==
  {<<"1", "0">>, <<"a", "b", "c">>, <<"1", "0", "a", "b">>,
   <<"1", "e", "3", "9">>, <<"1", "6", "7", "7", "7", "2", "1", "7">>}

TaskLabels ==
  {Label(NETWORK_BANDWIDTH_LABEL_NAME, v) : v \in LabelValues}
  \cup {Label("OTHER", <<"1", "0">>)}

InitNB ==
  /\ ParseIdle
  /\ ReadersIdle
  /\ KeyIdle
  /\ task \in {[resources |-> rs, labels |-> ls] :
                 rs \in TaskResourceLists, ls \in SeqsUpTo(TaskLabels, MaxLabels)}
  /\ slaveTotalResources \in SlaveResourceLists
  /\ consulted = {}
  /\ enforcing = "declared"
  /\ enforced = Some(<<>>)

\* enforceNetworkBandwidthAllocation returns res.
EnforceReturn(res) ==
  /\ enforced' = res
  /\ enforcing' = "done"

\* The first test, on the network bandwidth the task declares: Nothing is
\* returned if there is some.
DeclaredChecked(networkBandwidthResource) ==
  /\ consulted' = consulted \cup {"resources"}
  /\ IF networkBandwidthResource # None
     THEN EnforceReturn(Some(<<>>))
     ELSE enforcing' = "label" /\ UNCHANGED enforced
  /\ UNCHANGED <<task, slaveTotalResources>>

CheckDeclared ==
  /\ enforcing = "declared"
  /\ DeclaredChecked(GetUnreservedResource(task.resources,
                                           NETWORK_BANDWIDTH_RESOURCE_NAME))
  /\ UNCHANGED <<parseVars, readers, keyVars>>

\* Enforced adding a resource of no amount before the error is tested.
EnforcedAddingFirst(amount, next) ==
  IF amount.isError
  THEN /\ task' = AddNetworkBandwidth(task, Double(0, 1))
       /\ EnforceReturn(Error(amount.error))
  ELSE IF amount.value # None
  THEN /\ task' = AddNetworkBandwidth(task, amount.value[1])
       /\ EnforceReturn(Some(<<>>))
  ELSE /\ enforcing' = next
       /\ enforced' = Some(<<>>)
       /\ UNCHANGED task

\* The tests on the amount computed, from the labels or from the share of
\* CPU: an error is returned, an amount is added to the task, and without
\* an amount the call goes on to next (or returns, if next is "done").
Enforced(amount, next) ==
  IF amount.isError
  THEN EnforceReturn(Error(amount.error)) /\ UNCHANGED task
  ELSE IF amount.value # None
  THEN /\ task' = AddNetworkBandwidth(task, amount.value[1])
       /\ EnforceReturn(Some(<<>>))
  ELSE /\ enforcing' = next
       /\ enforced' = Some(<<>>)
       /\ UNCHANGED task

CheckLabel ==
  /\ enforcing = "label"
  /\ consulted' = consulted \cup {"labels"}
  /\ Enforced(GetNetworkBandwidthFromLabel(task.labels), "share")
  /\ UNCHANGED slaveTotalResources
  /\ UNCHANGED <<parseVars, readers, keyVars>>

ComputeShare ==
  /\ enforcing = "share"
  /\ consulted' = consulted \cup {"slave"}
  /\ Enforced(ComputeNetworkBandwidthBasedOnShareOfCpu(task.resources,
                                                       slaveTotalResources),
              "done")
  /\ UNCHANGED slaveTotalResources
  /\ UNCHANGED <<parseVars, readers, keyVars>>

NextNB ==
  \/ CheckDeclared
  \/ CheckLabel
  \/ ComputeShare

SpecNB == InitNB /\ [][NextNB]_vars

\* ------------------------------------------------- describing the input

Keys == doc.keys.values
Positions == 1..Len(Keys)

\* The document is a JSON object with an array 'keys'.
WellStructured == doc.json = "object" /\ doc.keys.type = "array"
OnlyObjects == \A i \in Positions : Keys[i].type = "object"

IsString(v) == v.type = "string"
Decodable(v) == IsString(v) /\ \A c \in 1..Len(v.value) : IsBase64(v.value[c])

\* A key object with a per-key error: kty or kid missing or not a string, a
\* kty other than "RSA", n or e missing, not a string or undecodable, or a
\* string d (which asks for a private key) that is undecodable.
HasPerKeyError(k) ==
  \/ ~IsString(k["kty"])
  \/ ~IsString(k["kid"])
  \/ k["kty"].value # <<"R", "S", "A">>
  \/ ~Decodable(k["n"])
  \/ ~Decodable(k["e"])
  \/ IsString(k["d"]) /\ ~Decodable(k["d"])

\* A key object that is a well-formed RSA public key (no d) or private key.
RSAWithKid(k) ==
  /\ IsString(k["kty"]) /\ k["kty"].value = <<"R", "S", "A">>
  /\ IsString(k["kid"])
  /\ Decodable(k["n"]) /\ Decodable(k["e"])
PublicKeyObject(k) == RSAWithKid(k) /\ k["d"] = Absent
PrivateKeyObject(k) == RSAWithKid(k) /\ Decodable(k["d"])

Returned == pc = "done"
ReturnedSet == pc = "done" /\ ~ret.isError
\* parse has returned a JwkSet on which no lookup was made yet.
JustReturnedSet == ReturnedSet /\ found = NoLookup

\* ----------------------------------------------------------------- claims

\* C1: parse returns a JwkSet, never an error, for every document that is a
\* JSON object whose 'keys' is an array of objects only, whatever per-key
\* errors the objects have; with an empty array, or with every key in
\* error, both registries of the JwkSet are empty.
C1_ParseSucceedsOnObjects ==
  (Returned /\ WellStructured /\ OnlyObjects) =>
    /\ ~ret.isError
    /\ (\A i \in Positions : HasPerKeyError(Keys[i].object)) =>
         /\ DOMAIN ret.value.m_signers = {}
         /\ DOMAIN ret.value.m_verifiers = {}

\* C1 witness: parse has returned a JwkSet for a document of two key
\* objects, both in error.
C1_Witness ==
  /\ ReturnedSet /\ WellStructured /\ OnlyObjects
  /\ Len(Keys) >= 2
  /\ \A i \in Positions : HasPerKeyError(Keys[i].object)
  /\ examined = Positions

\* C2: parse returns an error and no JwkSet when the text is not a JSON
\* object, or has no 'keys', or 'keys' is not an array; no key object is
\* examined and nothing is logged.
C2_StructureErrors ==
  (Returned /\ ~WellStructured) =>
    /\ ret.isError
    /\ ret.value = <<>>
    /\ examined = {}
    /\ log = <<>>

\* C2 witness: parse has returned for a document whose 'keys' is a string.
C2_Witness ==
  /\ Returned /\ doc.json = "object" /\ doc.keys.type = "string"
  /\ ret.isError

\* C3: when some element of 'keys' is not an object, parse returns an error
\* and no JwkSet, wherever the element stands; the registries built from
\* the elements before it are discarded.
C3_NonObjectElement ==
  (Returned /\ WellStructured /\ ~OnlyObjects) =>
    /\ ret.isError
    /\ ret.value = <<>>
    /\ signers = EmptyMap /\ verifiers = EmptyMap

\* C3 witness: parse has returned an error for a document whose second
\* element is not an object and whose first is a well-formed key, which
\* was examined.
C3_Witness ==
  /\ Returned /\ WellStructured /\ Len(Keys) >= 2
  /\ Keys[2].type # "object"
  /\ Keys[1].type = "object" /\ PublicKeyObject(Keys[1].object)
  /\ examined = {1}
  /\ ret.isError

\* The positions of the key objects that carry the kid of the key at i.
SameKid(i) ==
  {j \in Positions : /\ Keys[j].type = "object"
                     /\ Keys[j].object["kid"] = Keys[i].object["kid"]}

KidAt(i) == Keys[i].object["kid"].value

\* The big integer a decodable member stands for.
BigNumAt(i, f) == DecodeUrlSafeToBigNum(Keys[i].object[f].value).value

\* The lookup last made was op on the kid of the key at i.
Looked(op, i) == found.op = op /\ found.kid = KidAt(i)

\* C4: a key object with kty "RSA", a string kid, decodable n and e and no
\* d registers a verifier under its kid and no signer: the JwkSet has a
\* verifier under the kid and no signer built from this key; when no other
\* key has the kid, the verifier is the one built from this key and holds
\* its n and e, findVerifier(kid) finds it and findSigner(kid) fails.
C4_PublicKeyRegistersVerifier ==
  (ReturnedSet /\ OnlyObjects) =>
    \A i \in Positions :
      PublicKeyObject(Keys[i].object) =>
        /\ KidAt(i) \in DOMAIN ret.value.m_verifiers
        /\ \A k \in DOMAIN ret.value.m_signers : ret.value.m_signers[k].id # i
        /\ SameKid(i) = {i} =>
             /\ ret.value.m_verifiers[KidAt(i)] =
                  RSAVerifier(RSASet0Key(RSANew, BigNumAt(i, "n"),
                                         BigNumAt(i, "e"), Nullptr), i)
             /\ KidAt(i) \notin DOMAIN ret.value.m_signers
             /\ Looked("findVerifier", i) =>
                  /\ ~found.res.isError
                  /\ found.res.value = ret.value.m_verifiers[KidAt(i)]
             /\ Looked("findSigner", i) => found.res.isError

\* C4 witness: findSigner has failed on the kid of a public key, the second
\* of two keys with different kids.
C4_Witness ==
  /\ ReturnedSet /\ OnlyObjects /\ Len(Keys) >= 2
  /\ PublicKeyObject(Keys[2].object)
  /\ SameKid(2) = {2}
  /\ KidAt(2) \in DOMAIN ret.value.m_verifiers
  /\ Looked("findSigner", 2) /\ found.res.isError

\* C5: a key object with kty "RSA", a string kid and decodable n, e and d
\* registers a signer under its kid and no verifier: the JwkSet has a
\* signer under the kid and no verifier built from this key; when no other
\* key has the kid, the signer is the one built from this key and holds
\* its n, e and d, findSigner(kid) finds it and findVerifier(kid) fails.
C5_PrivateKeyRegistersSigner ==
  (ReturnedSet /\ OnlyObjects) =>
    \A i \in Positions :
      PrivateKeyObject(Keys[i].object) =>
        /\ KidAt(i) \in DOMAIN ret.value.m_signers
        /\ \A k \in DOMAIN ret.value.m_verifiers :
             ret.value.m_verifiers[k].id # i
        /\ SameKid(i) = {i} =>
             /\ ret.value.m_signers[KidAt(i)] =
                  RSASigner(RSASet0Key(RSANew, BigNumAt(i, "n"),
                                       BigNumAt(i, "e"), BigNumAt(i, "d")), i)
             /\ KidAt(i) \notin DOMAIN ret.value.m_verifiers
             /\ Looked("findSigner", i) =>
                  /\ ~found.res.isError
                  /\ found.res.value = ret.value.m_signers[KidAt(i)]
             /\ Looked("findVerifier", i) => found.res.isError

\* C5 witness: findVerifier has failed on the kid of a private key, the
\* second of two keys with different kids.
C5_Witness ==
  /\ ReturnedSet /\ OnlyObjects /\ Len(Keys) >= 2
  /\ PrivateKeyObject(Keys[2].object)
  /\ SameKid(2) = {2}
  /\ KidAt(2) \in DOMAIN ret.value.m_signers
  /\ Looked("findVerifier", 2) /\ found.res.isError

\* The key objects of the document, each with its position, but for the
\* one at position i.
ItemsWithout(i) ==
  SelectSeq([j \in Positions |-> [at |-> j, object |-> Keys[j].object]],
            LAMBDA item : item.at # i)

\* C6: a key object with a per-key error adds nothing to either registry
\* and does not affect any other key: the registries parse returns are
\* those of the document with that key object removed (each capability
\* being named by the position its key has in the whole document).
C6_BadKeyLeavesNoTrace ==
  (JustReturnedSet /\ OnlyObjects) =>
    \A i \in Positions :
      HasPerKeyError(Keys[i].object) =>
        ret.value = ClassifyAll(ItemsWithout(i), EmptyMap, EmptyMap)

\* C6 witness: parse has returned a JwkSet with a signer for a document
\* whose first key has an undecodable d and whose second is a private key
\* with the same kid.
C6_Witness ==
  /\ JustReturnedSet /\ OnlyObjects /\ Len(Keys) >= 2
  /\ HasPerKeyError(Keys[1].object)
  /\ Keys[1].object["d"] = BadBase64
  /\ PrivateKeyObject(Keys[2].object)
  /\ SameKid(1) = {1, 2}
  /\ DOMAIN ret.value.m_signers = {KidAt(2)}

\* The key at position i was registered: some capability was built from it.
Registered(i) ==
  \/ \E k \in DOMAIN ret.value.m_signers : ret.value.m_signers[k].id = i
  \/ \E k \in DOMAIN ret.value.m_verifiers : ret.value.m_verifiers[k].id = i

Warned(i) == \E w \in 1..Len(log) : log[w].at = i

\* C7: a warning is recorded for a key object exactly when the key is
\* skipped: a key registered as a signer or a verifier produces no warning
\* and every key that is skipped produces one.
C7_WarningIffSkipped ==
  (ReturnedSet /\ OnlyObjects) =>
    \A i \in Positions : Warned(i) <=> ~Registered(i)

\* C8: findSigner(kid) returns the signer registered under kid when the
\* signer registry has one and a not-found error otherwise; findVerifier
\* does the same on the verifier registry, whatever the other registry
\* holds.
C8_Lookups ==
  ReturnedSet =>
    /\ found.op = "findSigner" =>
         IF found.kid \in DOMAIN ret.value.m_signers
         THEN /\ ~found.res.isError
              /\ found.res.value = ret.value.m_signers[found.kid]
         ELSE found.res.isError
    /\ found.op = "findVerifier" =>
         IF found.kid \in DOMAIN ret.value.m_verifiers
         THEN /\ ~found.res.isError
              /\ found.res.value = ret.value.m_verifiers[found.kid]
         ELSE found.res.isError

\* C8 witness: findVerifier has failed on a kid that is registered as a
\* signer only.
C8_Witness ==
  /\ ReturnedSet
  /\ found.op = "findVerifier"
  /\ found.kid \in DOMAIN ret.value.m_signers
  /\ found.kid \notin DOMAIN ret.value.m_verifiers
  /\ found.res.isError

\* C9: when two key objects of a document share a kid, one a well-formed
\* public key and one a well-formed private key, in either order, the
\* JwkSet holds a verifier and a signer under that kid.
C9_SharedKidInBothRegistries ==
  (ReturnedSet /\ OnlyObjects) =>
    \A i, j \in Positions :
      (/\ PublicKeyObject(Keys[i].object)
       /\ PrivateKeyObject(Keys[j].object)
       /\ j \in SameKid(i)) =>
        /\ KidAt(i) \in DOMAIN ret.value.m_verifiers
        /\ KidAt(i) \in DOMAIN ret.value.m_signers

\* C9 witness: parse has returned a JwkSet with a signer built from the
\* first key and a verifier built from the second, under one kid.
C9_Witness ==
  /\ ReturnedSet /\ OnlyObjects /\ Len(Keys) >= 2
  /\ PrivateKeyObject(Keys[1].object)
  /\ PublicKeyObject(Keys[2].object)
  /\ SameKid(1) = {1, 2}
  /\ ret.value.m_signers[KidAt(1)].id = 1
  /\ ret.value.m_verifiers[KidAt(1)].id = 2

\* The positions of the keys with the kid of the key at i from which a
\* verifier is built (a well-formed RSA key that has no string d), and of
\* those from which a signer is built.
VerifierKeys(i) ==
  {j \in SameKid(i) : RSAWithKid(Keys[j].object) /\ ~IsString(Keys[j].object["d"])}
SignerKeys(i) == {j \in SameKid(i) : PrivateKeyObject(Keys[j].object)}

Least(S) == CHOOSE m \in S : \A n \in S : m <= n

\* C10: the keys are processed in document order, and among the keys of one
\* kind that share a kid the registry keeps the capability built from the
\* first in document order; a later one never replaces it.
C10_FirstOccurrenceWins ==
  /\ pc = "loop" => examined = 1..(idx - 1)
  /\ \A a, b \in 1..Len(log) : a < b => log[a].at < log[b].at
  /\ (ReturnedSet /\ OnlyObjects) =>
       \A i \in Positions :
         /\ i \in VerifierKeys(i) =>
              ret.value.m_verifiers[KidAt(i)].id = Least(VerifierKeys(i))
         /\ i \in SignerKeys(i) =>
              ret.value.m_signers[KidAt(i)].id = Least(SignerKeys(i))

\* C10 witness: parse has returned a JwkSet whose signer under a kid is the
\* one built from the first of two private keys with that kid.
C10_Witness ==
  /\ ReturnedSet /\ OnlyObjects /\ Len(Keys) >= 2
  /\ SignerKeys(2) = {1, 2}
  /\ ret.value.m_signers[KidAt(2)].id = 1

\* ------------------------------------------- claims on one key object

\* The call is over / the builder has returned the private key it built.
CallDone == stage = "done"
PrivateKeyBuilt == kind = "PRIVATE" /\ stage \in {"insert", "done"} /\ built # <<>>

\* The member f of the key object was extracted: it is a decodable string.
Extracted(f) == Decodable(object[f])

\* The components of the RSA key that hold the members in fs are set.
ComponentOf(f) ==
  CASE f = "dp" -> "dmp1" [] f = "dq" -> "dmq1" [] f = "qi" -> "iqmp"
    [] OTHER -> f
Installed(fs) == {f \in fs : built[1][ComponentOf(f)] # Nullptr}

\* C11: in every RSA private key built by the private-key builder the
\* prime factors are installed if and only if p and q were both extracted,
\* and the CRT coefficients if and only if dp, dq and qi all were; in no
\* state does a key hold p without q, q without p, or some but not all of
\* dp, dq and qi.
C11_CrtInstalledWhole ==
  /\ built # <<>> =>
       /\ Installed({"p", "q"}) \in {{}, {"p", "q"}}
       /\ Installed({"dp", "dq", "qi"}) \in {{}, {"dp", "dq", "qi"}}
  /\ PrivateKeyBuilt =>
       /\ Installed({"p", "q"}) = {"p", "q"}
            <=> Extracted("p") /\ Extracted("q")
       /\ Installed({"dp", "dq", "qi"}) = {"dp", "dq", "qi"}
            <=> Extracted("dp") /\ Extracted("dq") /\ Extracted("qi")

\* C11 witness: the call is over for a private key whose p was extracted
\* and whose q was not, and whose dp, dq and qi were; the key built holds
\* no factor and the three coefficients.
C11_Witness ==
  /\ CallDone /\ PrivateKeyBuilt
  /\ Extracted("p") /\ ~Extracted("q") /\ object["q"] # Absent
  /\ Extracted("dp") /\ Extracted("dq") /\ Extracted("qi")
  /\ Installed({"p", "q"}) = {}
  /\ Installed({"dp", "dq", "qi"}) = {"dp", "dq", "qi"}

\* The kid of the key object, a string.
CallKid == object["kid"].value

\* The optional members of the key object that are there but malformed: not
\* a string, or a string that cannot be decoded.
Malformed == {f \in {"p", "q", "dp", "dq", "qi"} :
                object[f] # Absent /\ ~Extracted(f)}

\* The key object without its members p and q.
WithoutFactors == [object EXCEPT !["p"] = Absent, !["q"] = Absent]

\* C12: a key object with kty "RSA", a string kid and decodable n, e and d
\* registers a signer whatever its optional members p, q, dp, dq and qi
\* are (absent, valid, not a string or undecodable): the call never ends
\* without the signer, and when only one of p and q was extracted the key
\* of the signer is the one built from the key object without p and q.
C12_OptionalNeverFails ==
  (CallDone /\ PrivateKeyObject(object)) =>
    /\ DOMAIN callSigners = {CallKid}
    /\ DOMAIN callVerifiers = {}
    /\ callSigners[CallKid].key.d # Nullptr
    /\ Cardinality({f \in {"p", "q"} : Extracted(f)}) = 1 =>
         callSigners[CallKid].key = JwkToRSAPrivateKey(WithoutFactors).value

\* C12 witness: a signer is registered for a private key with a valid p, a
\* q that is not a string and an undecodable dp.
C12_Witness ==
  /\ CallDone /\ PrivateKeyObject(object)
  /\ Extracted("p") /\ object["q"] = JNumber /\ object["dp"] = BadBase64
  /\ {"q", "dp"} \subseteq Malformed
  /\ DOMAIN callSigners = {CallKid}

\* jwkToRSAKey has chosen the builder for the key object.
RequestChosen == kind # "none"

\* C13: an RSA key object is a private-key request if and only if it has a
\* string member d, and a public-key request otherwise; the request decides
\* the registry: a key whose d is a string is never registered as a
\* verifier, and is dropped when d cannot be decoded; a key whose d is
\* there but not a string is built as a public key from n and e and
\* registered as a verifier.
C13_RequestKindByStringD ==
  /\ RequestChosen =>
       (kind = "PRIVATE" <=> IsString(object["d"]))
  /\ RequestChosen =>
       (kind = "PUBLIC" <=> ~IsString(object["d"]))
  /\ IsString(object["d"]) => DOMAIN callVerifiers = {}
  /\ (CallDone /\ IsString(object["d"]) /\ ~Decodable(object["d"])) =>
       /\ DOMAIN callSigners = {}
       /\ built = <<>>
  /\ (CallDone /\ RSAWithKid(object) /\ object["d"] = JNumber) =>
       /\ DOMAIN callSigners = {}
       /\ DOMAIN callVerifiers = {CallKid}
       /\ callVerifiers[CallKid] =
            RSAVerifier(RSASet0Key(RSANew,
                          DecodeUrlSafeToBigNum(object["n"].value).value,
                          DecodeUrlSafeToBigNum(object["e"].value).value,
                          Nullptr), 1)

\* C13 witness: a verifier is registered for a key object whose d is a
\* number and which has all the optional members.
C13_Witness ==
  /\ CallDone /\ RSAWithKid(object) /\ object["d"] = JNumber
  /\ Extracted("p") /\ Extracted("q")
  /\ kind = "PUBLIC"
  /\ DOMAIN callVerifiers = {CallKid}

\* --------------------------------------------- claims on the readers

\* Readers a and b have both returned from the same lookup of the same kid.
SameLookup(a, b) ==
  /\ readers[a].at = "returned" /\ readers[b].at = "returned"
  /\ readers[a].op = readers[b].op
  /\ readers[a].kid = readers[b].kid

SameResult(x, y) ==
  /\ x.isError = y.isError
  /\ x.isError => x.error = y.error
  /\ ~x.isError => x.value = y.value

\* C14: once parse has returned a JwkSet, no step of a findSigner or
\* findVerifier call of any reader changes it: its two registries are the
\* same in every later state, and two lookups of one kid return the same
\* result, whenever they were made.
C14_LookupsChangeNothing ==
  /\ [][ReturnedSet => ret' = ret]_vars
  /\ [](\A a, b \in ReaderIds :
          SameLookup(a, b) => SameResult(readers[a].res, readers[b].res))

\* C14 witness: two readers have looked up the same kid with findSigner
\* and both hold the signer, in a JwkSet that has a verifier too.
C14_Witness ==
  /\ ReturnedSet
  /\ SameLookup(1, 2)
  /\ readers[1].op = "findSigner"
  /\ ~readers[1].res.isError
  /\ ~readers[2].res.isError
  /\ DOMAIN ret.value.m_verifiers # {}

\* ------------------------------------------------------ claims on 'use'

\* The document d with the member 'use' taken out of every key object.
WithoutUse(d) ==
  [d EXCEPT !.keys.values =
     [i \in 1..Len(d.keys.values) |->
        [d.keys.values[i] EXCEPT !.object = WithUse(@, Absent)]]]

\* C15: the member 'use' of a key object has no influence: parse returns
\* for a document what it returns for the same document without any 'use'
\* member: an error or a JwkSet alike, and the same signers and verifiers
\* under the same kids.
C15_UseHasNoInfluence ==
  Returned =>
    /\ ret.isError = Parse(WithoutUse(doc)).isError
    /\ ret.isError => ret.error = Parse(WithoutUse(doc)).error
    /\ ~ret.isError =>
         /\ DOMAIN ret.value.m_signers
              = DOMAIN Parse(WithoutUse(doc)).value.m_signers
         /\ DOMAIN ret.value.m_verifiers
              = DOMAIN Parse(WithoutUse(doc)).value.m_verifiers
         /\ ret.value = Parse(WithoutUse(doc)).value

\* C15 witness: parse has returned a JwkSet with a signer and a verifier
\* for a document whose first key is a private key of use "enc" and whose
\* second is a public key whose use is a number.
C15_Witness ==
  /\ JustReturnedSet /\ OnlyObjects /\ Len(Keys) >= 2
  /\ PrivateKeyObject(Keys[1].object)
  /\ Keys[1].object["use"] = JString(<<"e", "n", "c">>)
  /\ PublicKeyObject(Keys[2].object)
  /\ Keys[2].object["use"] = JNumber
  /\ ret.value.m_signers[KidAt(1)].id = 1
  /\ ret.value.m_verifiers[KidAt(2)].id = 2

\* ------------------------------------------- claims on the extraction

\* The members in the order the claim lists them: the required ones, then
\* (private key) the optional ones.
ListedRequired == IF kind = "PRIVATE" THEN <<"e", "n", "d">> ELSE <<"e", "n">>
ListedOrder ==
  IF kind = "PRIVATE" THEN <<"e", "n", "d", "p", "q", "dp", "dq", "qi">>
  ELSE <<"e", "n">>

\* The positions in ListedRequired of the members that cannot be extracted.
BadRequired == {i \in 1..Len(ListedRequired) : ~Extracted(ListedRequired[i])}

\* The error of the extraction of a member that cannot be extracted.
ExtractionError(f) ==
  IF object[f] = Absent THEN <<"Failed to locate '", f, "' in JWK">>
  ELSE IF ~IsString(object[f]) THEN <<"Token '", f, "' is not a string">>
  ELSE <<"Failed to base64url-decode: ", "Invalid character">>

\* C16: the extraction examines the required members in their listed order
\* (e, n, then d for a private key) and the optional ones after them; it
\* stops at the first required member that is missing, not a string or
\* undecodable: the call fails with the error of that member, no later
\* member is examined, no integer is returned and no RSA key is built.
C16_RequiredFailFast ==
  RequestChosen =>
    /\ asked = SubSeq(ListedOrder, 1, Len(asked))
    /\ \A i \in 1..(Len(asked) - 1) :
         i <= Len(ListedRequired) => Extracted(asked[i])
    /\ (CallDone /\ BadRequired # {}) =>
         /\ asked = SubSeq(ListedOrder, 1, Least(BadRequired))
         /\ callRes.isError
         /\ callRes.error = FailedToCreate(kind)
                              \o ExtractionError(asked[Len(asked)])
         /\ bigNums = EmptyMap
         /\ \A f \in BigNumFields : owner[f] \in {"none", "freed"}
         /\ built = <<>>
         /\ DOMAIN callSigners = {} /\ DOMAIN callVerifiers = {}

\* C16 witness: the call has failed with the error of n for a private key
\* whose e is valid, whose n is a number, whose d is undecodable and which
\* has all the optional members; e and n were examined and e was freed.
C16_Witness ==
  /\ CallDone /\ kind = "PRIVATE"
  /\ Extracted("e") /\ object["n"] = JNumber /\ object["d"] = BadBase64
  /\ Extracted("p") /\ Extracted("qi")
  /\ asked = <<"e", "n">>
  /\ callRes.isError
  /\ owner["e"] = "freed"

\* ------------------------------------------- claims on the registries

\* The registries as they stand: parse's local maps while it runs, those of
\* the JwkSet once it has returned one.
SignersNow == IF ReturnedSet THEN ret.value.m_signers ELSE signers
VerifiersNow == IF ReturnedSet THEN ret.value.m_verifiers ELSE verifiers

\* The entries of a registry that were built from the key at position i.
EntriesFrom(registry, i) == {k \in DOMAIN registry : registry[k].id = i}

\* The key at position i is a key object of the prefix processed, with kty
\* "RSA", the string kid k and decodable n and e.
FromPrefix(i, k) ==
  /\ i \in examined
  /\ i \in Positions
  /\ Keys[i].type = "object"
  /\ IsString(Keys[i].object["kty"])
  /\ Keys[i].object["kty"].value = <<"R", "S", "A">>
  /\ Keys[i].object["kid"] = JString(k)
  /\ Decodable(Keys[i].object["n"])
  /\ Decodable(Keys[i].object["e"])

\* C17: after any prefix of 'keys' is processed, every entry of either
\* registry was built from a key object of the prefix that has kty "RSA",
\* the entry's kid as a string kid and decodable required members (n and e,
\* and d for a signer); a key object has at most one entry, in one registry
\* only, so the two registries together never hold more entries than key
\* objects were processed.
C17_EntriesFromProcessedKeys ==
  /\ \A k \in DOMAIN SignersNow :
       /\ FromPrefix(SignersNow[k].id, k)
       /\ Decodable(Keys[SignersNow[k].id].object["d"])
  /\ \A k \in DOMAIN VerifiersNow : FromPrefix(VerifiersNow[k].id, k)
  /\ \A i \in Positions :
       Cardinality(EntriesFrom(SignersNow, i))
         + Cardinality(EntriesFrom(VerifiersNow, i)) <= 1
  /\ Cardinality(DOMAIN SignersNow) + Cardinality(DOMAIN VerifiersNow)
       <= Cardinality(examined)
  /\ pc = "loop" => Cardinality(examined) = idx - 1

\* C17 witness: parse is in its loop after the first of two elements, a
\* private key, with one signer and no verifier; the second is a public
\* key of the same kid.
C17_Witness ==
  /\ pc = "loop" /\ idx = 2 /\ Len(Keys) >= 2
  /\ PrivateKeyObject(Keys[1].object)
  /\ Keys[2].type = "object" /\ PublicKeyObject(Keys[2].object)
  /\ SameKid(1) = {1, 2}
  /\ DOMAIN signers = {KidAt(1)}
  /\ DOMAIN verifiers = {}

\* ---------------------------------------------- claims on the BIGNUMs

\* C18: in the private-key build every big integer decoded from the key
\* object is owned by the RSA key or freed: none is released from the
\* pointer that held it and left without an owner, whether one of p and q
\* is there or only some of dp, dq and qi.
C18_NoBigNumLeftUnowned ==
  /\ \A f \in BigNumFields : owner[f] # "released"
  /\ CallDone => \A f \in BigNumFields : owner[f] \in {"none", "rsa", "freed"}

\* ------------------------------------- claims on the network bandwidth

\* The task declares a network_bandwidth resource of allocation role "*".
DeclaresBandwidth ==
  \E i \in 1..Len(task.resources) :
    /\ task.resources[i].name = "network_bandwidth"
    /\ task.resources[i].role = "*"

EnforcementDone == enforcing = "done"

\* C19: when the task declares a network_bandwidth resource whose
\* allocation role is "*", the call does one thing: it returns Nothing,
\* with the task as it was, having read neither the labels of the task
\* (parsable or not) nor the resources of the slave; nothing happens after
\* the call has returned.
C19_DeclaredBandwidthIsKept ==
  /\ [][(enforcing = "declared" /\ DeclaresBandwidth) =>
          /\ enforcing' = "done"
          /\ ~enforced'.isError
          /\ task' = task
          /\ consulted' = {"resources"}]_vars
  /\ [][~EnforcementDone]_vars

\* C19 witness: the call has returned Nothing having read the resources
\* only, for a task that declares network bandwidth of role "*" after one
\* of another role and whose label is no number, on a slave without
\* resources.
C19_Witness ==
  /\ EnforcementDone /\ ~enforced.isError
  /\ consulted = {"resources"}
  /\ DeclaresBandwidth
  /\ task.resources[1].role = "r"
  /\ task.labels = <<Label("NETWORK_BANDWIDTH_RESOURCE", <<"a", "b", "c">>)>>
  /\ slaveTotalResources = <<>>

\* The first NETWORK_BANDWIDTH_RESOURCE label of the task, if it has one,
\* is a decimal integer; its amount is the integer written.
BandwidthLabels ==
  {i \in 1..Len(task.labels) :
     task.labels[i].key = "NETWORK_BANDWIDTH_RESOURCE"}
LabelIsNumber ==
  /\ BandwidthLabels # {}
  /\ task.labels[Least(BandwidthLabels)].value # <<>>
  /\ \A c \in 1..Len(task.labels[Least(BandwidthLabels)].value) :
       IsDigit(task.labels[Least(BandwidthLabels)].value[c])
LabelAmount ==
  [num |-> DecimalValue(task.labels[Least(BandwidthLabels)].value), den |-> 1]

\* C20: when the task declares no network_bandwidth resource of role "*"
\* and has a NETWORK_BANDWIDTH_RESOURCE label whose value is a number, the
\* call adds one scalar network_bandwidth resource of role "*" and of the
\* label's amount to the task and returns Nothing, without reading the
\* resources of the slave, whatever they are.
C20_LabelAmountIsAdded ==
  [][(enforcing = "label" /\ ~DeclaresBandwidth /\ LabelIsNumber) =>
       /\ enforcing' = "done"
       /\ ~enforced'.isError
       /\ task'.labels = task.labels
       /\ task'.resources =
            Append(task.resources,
                   [name |-> "network_bandwidth", type |-> "SCALAR",
                    role |-> "*", scalar |-> LabelAmount])
       /\ "slave" \notin consulted']_vars

\* The task has a NETWORK_BANDWIDTH_RESOURCE label, and the value of the
\* first one does not start with a number, or is a number beyond the floats.
LabelNotParsable ==
  /\ BandwidthLabels # {}
  /\ \/ task.labels[Least(BandwidthLabels)].value = <<>>
     \/ ~IsDigit(task.labels[Least(BandwidthLabels)].value[1])
LabelOutOfRange ==
  /\ BandwidthLabels # {}
  /\ ~LabelNotParsable
  /\ Stof(task.labels[Least(BandwidthLabels)].value).thrown = "out_of_range"

\* A list of resources holds a resource of the name whose role is "*".
Advertises(resources, resourceName) ==
  \E i \in 1..Len(resources) :
    resources[i].name = resourceName /\ resources[i].role = "*"

\* No amount can be deduced from the share of CPU: there is no label, the
\* slave advertises network bandwidth, and the slave or the task has no cpus.
ShareNotDeducible ==
  /\ BandwidthLabels = {}
  /\ Advertises(slaveTotalResources, "network_bandwidth")
  /\ \/ ~Advertises(slaveTotalResources, "cpus")
     \/ ~Advertises(task.resources, "cpus")

ReturnedError == EnforcementDone /\ enforced.isError

\* C21: whenever the call returns an Error the task is as it was, without
\* a network_bandwidth resource added: no step that returns an Error
\* changes the task, a step that changes the task returns Nothing, and an
\* Error is returned only for a label that is not parsable or out of range,
\* or without a label on a slave that advertises network bandwidth when
\* the slave or the task has no cpus of role "*".
C21_ErrorLeavesTaskUnchanged ==
  /\ [][enforced'.isError => task' = task]_vars
  /\ [][task' # task => (enforcing' = "done" /\ ~enforced'.isError)]_vars
  /\ [](ReturnedError =>
          /\ ~DeclaresBandwidth
          /\ LabelNotParsable \/ LabelOutOfRange \/ ShareNotDeducible)

\* C21 witness: the call has returned the error of the task without cpus,
\* on a slave that advertises network bandwidth and cpus, and the task has
\* no resource at all.
C21_Witness ==
  /\ ReturnedError
  /\ enforced.error = <<"No CPU declared in the task. ",
                        "Cannot deduce network bandwidth.">>
  /\ consulted = {"resources", "labels", "slave"}
  /\ task.resources = <<>>
  /\ Advertises(slaveTotalResources, "network_bandwidth")
  /\ Advertises(slaveTotalResources, "cpus")

\* The call of the claim: a task without network bandwidth of role "*" and
\* without the label, on a slave without network bandwidth of role "*".
NothingToEnforce ==
  /\ ~DeclaresBandwidth
  /\ BandwidthLabels = {}
  /\ ~Advertises(slaveTotalResources, "network_bandwidth")

MissingCpuErrors ==
  {<<"No CPU advertised by the slave.">>,
   <<"No CPU declared in the task. ", "Cannot deduce network bandwidth.">>}

\* C22: for a task that declares no network_bandwidth of role "*" and has
\* no NETWORK_BANDWIDTH_RESOURCE label, on a slave that advertises no
\* network_bandwidth of role "*", the call returns Nothing and leaves the
\* task as it was, whatever cpus the slave and the task declare: no step of
\* it changes the task or sets an error, and its last step returns; the
\* errors of the missing cpus are returned only on a slave that advertises
\* network_bandwidth.
C22_NothingWithoutSlaveBandwidth ==
  /\ [][NothingToEnforce =>
          /\ task' = task
          /\ ~enforced'.isError
          /\ enforcing = "share" => enforcing' = "done"]_vars
  /\ [](EnforcementDone /\ NothingToEnforce =>
          /\ ~enforced.isError
          /\ consulted = {"resources", "labels", "slave"})
  /\ [](ReturnedError /\ enforced.error \in MissingCpuErrors =>
          Advertises(slaveTotalResources, "network_bandwidth"))

\* C22 witness: the call has returned Nothing having read the slave's
\* resources, for a task without resources and with a label of another
\* key, on a slave that has network bandwidth of another role only and no
\* cpus.
C22_Witness ==
  /\ EnforcementDone /\ ~enforced.isError
  /\ consulted = {"resources", "labels", "slave"}
  /\ NothingToEnforce
  /\ task.resources = <<>>
  /\ task.labels = <<Label("OTHER", <<"1", "0">>)>>
  /\ slaveTotalResources =
       <<Resource("network_bandwidth", "r", Double(100, 1))>>

====
